---- MODULE Spec2Model ----
(***************************************************************************)
(* A model of cp-file (src/index.js): the asynchronous copy engine         *)
(* cpFileAsync with its entry point cpFile, and the blocking cpFile.sync.   *)
(* The filesystem, the streams and the promise machinery are the            *)
(* environment: every primitive may succeed or fail, and the stream events  *)
(* of one copy interleave freely.                                           *)
(***************************************************************************)
EXTENDS Integers, Sequences, FiniteSets, TLC

\* Largest number of chunks in the content of a source file.
MaxLen == 3

\* Largest number of calls of cpFile.sync in one behaviour.
MaxSyncCalls == 1

\* ... and in one behaviour of the specification of two copies.
MaxPairSyncCalls == 2

\* ------------------------------------------------------------------ paths
\* "f": a regular file; "l": a symbolic link to "f"; "dl": a dangling
\* symbolic link (to "nx"); "dir": a directory; "nx": no such file.
\* "" stands for an argument that is empty or absent.
SrcPaths == {"f", "l", "dl", "dir", "nx"}
DstPaths == {"out"}
\* Two copies run side by side use "f" and a second regular file "g",
\* and the destinations "out" and "out2".
PairSrcPaths == {"f", "g"}
PairDstPaths == {"out", "out2"}
Paths == SrcPaths \cup DstPaths \cup PairSrcPaths \cup PairDstPaths

\* The calls of cpFile of one behaviour; Solo: the one call of the
\* specification of a single copy.
Ops == {1, 2}
Solo == {1}

NoNode == [kind |-> "none", content |-> <<>>, target |-> "", times |-> "", mode |-> ""]
FileNode(c, t, m) == [kind |-> "file", content |-> c, target |-> "", times |-> t, mode |-> m]
LinkNode(tg, t, m) == [kind |-> "link", content |-> <<>>, target |-> tg, times |-> t, mode |-> m]
DirNode == [kind |-> "dir", content |-> <<>>, target |-> "", times |-> "tdir", mode |-> "mdir"]

\* The chunks of the source file and of a destination that exists beforehand.
SrcContent(n) == [i \in 1..n |-> 1 + (i % 2)]
OldContent == <<7, 7>>
OtherContent == <<5, 6>>

VARIABLES
    fs,      \* path -> node: the files, links and directories
    dirs,    \* the destination paths whose parent directory exists
    op,      \* async operation -> its state (arguments, position, streams, result)
    sync,    \* the last call of cpFile.sync and its outcome
    nsync,   \* calls of cpFile.sync made so far
    emitters, \* progress emitter -> its paths, fields, listeners and notifications
    heard    \* async operation -> the notifications the listener registered
             \* through its promise has received

vars == <<fs, dirs, op, sync, nsync, emitters, heard>>

\* ----------------------------------------------------------------- errors
NoErr == [cls |-> "none", msg |-> "", path |-> "", code |-> "", errno |-> 0]

\* An error of the operating system, as Node reports it.
SysError(code) == [cls |-> "Error", msg |-> code, path |-> "", code |-> code, errno |-> 0]

\* new CpFileError(message, nested): the message, and the nested error's code.
CpFileError(msg, path, nested) ==
    [cls |-> "CpFileError", msg |-> msg, path |-> path, code |-> nested.code, errno |-> 0]

\* The errors the wrappers of ./fs raise: a CpFileError naming the path.
FsError(what, path, code) == CpFileError(what, path, SysError(code))

\* ------------------------------------------------------------- filesystem
\* The node at a path; no node at a path the filesystem does not hold.
Node(F, p) == IF p \in DOMAIN F THEN F[p] ELSE NoNode

\* The file a path leads to when symbolic links are followed.
Deref(F, p) == IF Node(F, p).kind = "link" THEN F[p].target ELSE p

\* lstat: the node itself, a link's size being the length of its target path.
LstatCode(F, p, fault) ==
    IF fault THEN "EACCES" ELSE IF Node(F, p).kind = "none" THEN "ENOENT" ELSE ""

Lstat(F, p) ==
    [isDirectory |-> Node(F, p).kind = "dir",
     isSymbolicLink |-> Node(F, p).kind = "link",
     size |-> IF Node(F, p).kind = "link" THEN Len(Node(F, p).target)
              ELSE Len(Node(F, p).content),
     times |-> Node(F, p).times,
     mode |-> Node(F, p).mode]

\* Opening a path for reading follows links.
OpenReadCode(F, p, fault) ==
    LET q == Deref(F, p) IN
    IF fault THEN "EACCES"
    ELSE IF Node(F, q).kind = "none" THEN "ENOENT"
    ELSE IF Node(F, q).kind = "dir" THEN "EISDIR"
    ELSE ""

\* Opening the destination for writing: a missing parent directory, then
\* exclusive creation on an existing node (which the system reports whatever
\* the node's permissions), then a node that is not writable.
OpenWriteCode(F, D, p, excl, fault) ==
    IF p \notin D \/ p \notin DOMAIN F THEN "ENOENT"
    ELSE IF excl /\ F[p].kind # "none" THEN "EEXIST"
    ELSE IF fault THEN "EACCES"
    ELSE IF F[p].kind = "dir" THEN "EISDIR"
    ELSE ""

\* The destination once opened for writing: created, or truncated.
TruncatedKeeps(F, p) ==
    [F EXCEPT ![p] = IF @.kind = "none" THEN FileNode(<<>>, "now", "mnew") ELSE @]
Truncated(F, p) ==
    [F EXCEPT ![p] = IF @.kind = "none" THEN FileNode(<<>>, "now", "mnew")
                     ELSE FileNode(<<>>, "now", @.mode)]

\* One chunk written at offset pos (0-based) of a file; a gap reads as 0.
WriteAt(c, pos, b) ==
    [i \in 1..(IF Len(c) > pos + 1 THEN Len(c) ELSE pos + 1) |->
        IF i = pos + 1 THEN b ELSE IF i <= Len(c) THEN c[i] ELSE 0]

\* fs.copyFileSync(src, dst, flags): the code it fails with ("" on success).
CopyFileCode(F, D, src, dst, excl, fault) ==
    IF OpenReadCode(F, src, FALSE) # "" THEN OpenReadCode(F, src, FALSE)
    ELSE OpenWriteCode(F, D, dst, excl, fault)

\* ... and the filesystem after it succeeded: content and mode of the source.
CopiedFile(F, src, dst) ==
    [F EXCEPT ![dst] = FileNode(F[Deref(F, src)].content, "now", F[Deref(F, src)].mode)]

\* ---------------------------------------------------------------- options
RawOptions == [overwrite : {"unset", "true", "false"},
               followSymlinks : {"unset", "true", "false"}]

normalizeOptions(options) ==
    [overwrite |-> IF options.overwrite = "unset" THEN TRUE
                   ELSE options.overwrite = "true",
     followSymlinks |-> IF options.followSymlinks = "unset" THEN TRUE
                        ELSE options.followSymlinks = "true"]

\* if (!sourcePath || !destinationPath)
MissingArgsSrcOnly(source, destination) == source = ""
MissingArgs(source, destination) == source = "" \/ destination = ""

\* ------------------------------------------------- one async operation
IdleOp ==
    [pc |-> "idle", res |-> "none", err |-> NoErr, hasOn |-> FALSE,
     src |-> "", dst |-> "", overwrite |-> TRUE, followSymlinks |-> TRUE,
     size |-> 0, writtenBytes |-> 0, wbLog |-> <<>>,
     readError |-> NoErr, shouldUpdateStats |-> FALSE, linkCopy |-> "",
     rstate |-> "none", rpos |-> 0,
     wstate |-> "none", wflags |-> "", wended |-> FALSE, wbuf |-> <<>>,
     bytesWritten |-> 0,
     stat |-> [times |-> "", mode |-> ""],
     stats |-> [times |-> "", mode |-> ""], utimes |-> "none", chmod |-> "none",
     calls |-> <<>>, pre |-> NoNode,
     pe |-> 0, listen |-> "none",
     after |-> {}, openedAfter |-> {}, closedAfter |-> {}]

Reject(r, e) == [r EXCEPT !.res = "rejected", !.err = e, !.pc = "done"]
Resolve(r) == [r EXCEPT !.res = "resolved", !.pc = "done"]

\* progressEmitter.writtenBytes = v: the value, and the notification it sends.
SetWrittenBytes(r, v) == [r EXCEPT !.writtenBytes = v, !.wbLog = Append(@, v)]

Called(r, name) == [r EXCEPT !.calls = Append(@, name)]

\* ------------------------------------------------------ progress emitter
\* path.resolve(p) of a relative path: the path below the working directory.
resolve(p) == "/cwd/" \o p

\* new ProgressEmitter(sourcePath, destinationPath)
ProgressEmitter(sourcePath, destinationPath) ==
    [sourcePath |-> sourcePath, destinationPath |-> destinationPath,
     size |-> 0, writtenBytes |-> 0, listeners |-> {}, sent |-> <<>>]

NoEmitter == ProgressEmitter("", "")

\* The snapshot a notification carries.
Snapshot(e) ==
    [sourcePath |-> e.sourcePath, destinationPath |-> e.destinationPath,
     size |-> e.size, writtenBytes |-> e.writtenBytes,
     percent |-> IF e.size > 0 THEN (100 * e.writtenBytes) \div e.size ELSE 0]

\* P = [em, hd]: the emitters and what each listener has received.
\* Assigning size or writtenBytes of emitter e notifies its listeners.
Assign(P, e, field, v) ==
    LET x == IF field = "size" THEN [P.em[e] EXCEPT !.size = v]
             ELSE [P.em[e] EXCEPT !.writtenBytes = v]
    IN [em |-> [P.em EXCEPT ![e] = [x EXCEPT !.sent = Append(@, Snapshot(x))]],
        hd |-> [q \in DOMAIN P.hd |->
                  IF q \in x.listeners THEN Append(P.hd[q], Snapshot(x)) ELSE P.hd[q]]]

RECURSIVE AssignAll(_, _, _, _)
AssignAll(P, e, field, vs) ==
    IF vs = <<>> THEN P ELSE AssignAll(Assign(P, e, field, Head(vs)), e, field, Tail(vs))

\* progressEmitter.on(...args), reached through the promise of operation o.
Listen(P, e, o) == [P EXCEPT !.em[e].listeners = @ \cup {o}]

\* The emitter of a call: a new one for each call of cpFile.
NewEmitterShared(o) == 1
NewEmitter(o) == o

\* The values cpFileAsync assigns to writtenBytes before its first await,
\* that is before cpFile has returned the promise: none.
BeforeFirstAwaitReset == <<0>>
BeforeFirstAwait == <<>>

\* {flags: options.overwrite ? 'w' : 'wx'}
WriteFlagsAlwaysWx(overwrite) == "wx"
WriteFlagsAlwaysW(overwrite) == "w"
WriteFlags(overwrite) == IF overwrite THEN "w" ELSE "wx"

\* options.overwrite ? null : fsConstants.COPYFILE_EXCL
CopyExcl(overwrite) == ~overwrite

\* The catch around the awaited close of the write stream.
OnWriteErrorReadFirst(destination, error, readError) ==
    IF readError # NoErr THEN readError
    ELSE CpFileError("Cannot write to", destination, error)
OnWriteError(destination, error, readError) ==
    CpFileError("Cannot write to", destination, error)

\* if (readError) { throw readError; }
ThrowsReadErrorNever(readError) == FALSE
ThrowsReadError(readError) == readError # NoErr

\* The catch of the link-level copy: the one error it throws on.
LinkCopyThrowsNever(overwrite, code) == FALSE
LinkCopyThrows(overwrite, code) == ~overwrite /\ code = "EEXIST"

\* progressEmitter.writtenBytes = progressEmitter.size, after the copy.
FinalWrittenBytesOmitted(size, writtenBytes) == writtenBytes
FinalWrittenBytes(size, writtenBytes) == size

\* The stat whose atime, mtime and mode go to fs.utimes and fs.chmod: the
\* second one (stats), not the one taken before the transfer (stat).
MetaStatsFirst(stat, stats) == stat
MetaStats(stat, stats) == stats

\* The content the read stream of an operation delivers.
Source(r) == Node(fs, Deref(fs, r.src)).content

\* cpFile(sourcePath, destinationPath, options), up to the first await of
\* cpFileAsync. (A behaviour calls one of the two entry points: the async
\* one here, while no blocking call was made.)
CpFile(o, source, destination, options, listen) ==
    LET e == NewEmitter(o)
        P0 == [em |-> [emitters EXCEPT ![e] =
                         ProgressEmitter(resolve(source), resolve(destination))],
               hd |-> heard]
        P1 == AssignAll(P0, e, "writtenBytes", BeforeFirstAwait)
        P2 == IF listen THEN Listen(P1, e, o) ELSE P1
    IN
    /\ op[o].pc = "idle"
    /\ nsync = 0
    /\ IF MissingArgs(source, destination)
       THEN /\ op' = [op EXCEPT ![o] =
                Reject([@ EXCEPT !.src = source, !.dst = destination],
                       CpFileError("source and destination required", "", NoErr))]
            /\ UNCHANGED <<emitters, heard>>
       ELSE /\ op' = [op EXCEPT ![o] =
                Called([@ EXCEPT !.pc = "lstat", !.res = "pending", !.hasOn = TRUE,
                          !.src = source, !.dst = destination,
                          !.overwrite = normalizeOptions(options).overwrite,
                          !.followSymlinks = normalizeOptions(options).followSymlinks,
                          !.pre = Node(fs, destination),
                          !.pe = e, !.listen = IF listen THEN "sync" ELSE "none",
                          !.after = {q \in Ops : op[q].res = "resolved"}],
                       "lstat")]
            /\ emitters' = P2.em
            /\ heard' = P2.hd
    /\ UNCHANGED <<fs, dirs, sync, nsync>>

\* promise.on('progress', listener), called after the call of cpFile has
\* returned and other events have been handled.
On(o) ==
    /\ op[o].hasOn
    /\ op[o].listen = "none"
    /\ op' = [op EXCEPT ![o].listen = "late"]
    /\ emitters' = Listen([em |-> emitters, hd |-> heard], op[o].pe, o).em
    /\ UNCHANGED <<fs, dirs, sync, nsync, heard>>

\* The first lstat settles: the size, then the link-level copy or the
\* opening of the read stream.
LstatDone(o, fault, copyFault) ==
    LET r == op[o]
        code == LstatCode(fs, r.src, fault)
        stat == Lstat(fs, r.src)
        sized == [r EXCEPT !.size = stat.size,
                           !.stat = [times |-> stat.times, mode |-> stat.mode]]
        cc == CopyFileCode(fs, dirs, r.src, r.dst, CopyExcl(r.overwrite), copyFault)
        P0 == [em |-> emitters, hd |-> heard]
        P1 == Assign(P0, r.pe, "size", stat.size)
        P2 == Assign(P1, r.pe, "writtenBytes",
                     FinalWrittenBytes(sized.size, sized.writtenBytes))
        P == IF code # "" THEN P0
             ELSE IF stat.isSymbolicLink /\ ~r.followSymlinks
                     /\ ~(cc # "" /\ LinkCopyThrows(r.overwrite, cc)) THEN P2
             ELSE P1
    IN
    /\ r.pc = "lstat"
    /\ emitters' = P.em
    /\ heard' = P.hd
    /\ IF code # ""
       THEN /\ op' = [op EXCEPT ![o] = Reject(r, FsError("Cannot stat path", r.src, code))]
            /\ fs' = fs
       ELSE IF stat.isSymbolicLink /\ ~r.followSymlinks
       THEN IF cc # "" /\ LinkCopyThrows(r.overwrite, cc)
            THEN /\ op' = [op EXCEPT ![o] =
                     Reject(Called([sized EXCEPT !.linkCopy = cc], "copyFile"),
                            CpFileError("Cannot write to", r.dst,
                                        FsError("Cannot copy", r.dst, cc)))]
                 /\ fs' = fs
            ELSE /\ op' = [op EXCEPT ![o] =
                     Called(Called(
                       [SetWrittenBytes(sized, FinalWrittenBytes(sized.size, sized.writtenBytes))
                          EXCEPT !.linkCopy = IF cc = "" THEN "ok" ELSE cc,
                                 !.shouldUpdateStats = TRUE, !.pc = "restat"],
                       "copyFile"), "lstat")]
                 /\ fs' = IF cc = "" THEN CopiedFile(fs, r.src, r.dst) ELSE fs
       ELSE /\ op' = [op EXCEPT ![o] =
                Called([sized EXCEPT !.pc = "openRead"], "createReadStream")]
            /\ fs' = fs
    /\ UNCHANGED <<dirs, sync, nsync>>

\* await fs.createReadStream(source)
ReadStreamReady(o, fault) ==
    LET r == op[o]
        code == OpenReadCode(fs, r.src, fault)
    IN
    /\ r.pc = "openRead"
    /\ op' = [op EXCEPT ![o] =
         IF code # ""
         THEN Reject(r, FsError("Cannot read from", r.src, code))
         ELSE Called([r EXCEPT !.pc = "makeDir", !.rstate = "open"], "makeDir")]
    /\ UNCHANGED <<fs, dirs, sync, nsync, emitters, heard>>

\* The read stream fails while fs.makeDir is awaited: the 'error' handler of
\* cpFileAsync is not attached yet, so the error is recorded nowhere and
\* the stream, destroyed, emits neither 'data' nor 'end' afterwards.
ReadErrorUnhandled(o) ==
    LET r == op[o] IN
    /\ r.pc = "makeDir"
    /\ r.rstate = "open"
    /\ op' = [op EXCEPT ![o] = [r EXCEPT !.rstate = "lost"]]
    /\ UNCHANGED <<fs, dirs, sync, nsync, emitters, heard>>

\* await fs.makeDir(...), then the write stream, the handlers and the pipe.
MakeDirDone(o, fault) ==
    LET r == op[o] IN
    /\ r.pc = "makeDir"
    /\ IF fault
       THEN /\ op' = [op EXCEPT ![o] =
                Reject(r, FsError("Cannot create directory", r.dst, "EACCES"))]
            /\ dirs' = dirs
       ELSE /\ op' = [op EXCEPT ![o] =
                Called([r EXCEPT !.pc = "stream",
                          !.rstate = IF @ = "open" THEN "flowing" ELSE @,
                          !.wstate = "opening", !.wflags = WriteFlags(r.overwrite)],
                       "createWriteStream")]
            /\ dirs' = dirs \cup {r.dst}
    /\ UNCHANGED <<fs, sync, nsync, emitters, heard>>

\* The write stream emits 'error': the awaited promise rejects.
WriteFailed(r, code) ==
    LET w == [r EXCEPT !.wstate = "errored", !.wbuf = <<>>] IN
    IF r.res = "pending"
    THEN Reject(w, OnWriteError(r.dst, SysError(code), r.readError))
    ELSE w

\* The write stream opens its file.
WriteOpen(o, fault) ==
    LET r == op[o]
        code == OpenWriteCode(fs, dirs, r.dst, r.wflags = "wx", fault)
    IN
    /\ r.wstate = "opening"
    /\ IF code # ""
       THEN /\ op' = [op EXCEPT ![o] = WriteFailed(r, code)]
            /\ fs' = fs
       ELSE /\ op' = [op EXCEPT ![o] =
                [r EXCEPT !.wstate = "open",
                          !.openedAfter = {q \in Ops : op[q].wstate = "closed"}]]
            /\ fs' = Truncated(fs, r.dst)
    /\ UNCHANGED <<dirs, sync, nsync, emitters, heard>>

\* readStream 'data': the handler reports bytesWritten, the pipe queues the chunk.
ReadData(o) ==
    LET r == op[o] IN
    /\ r.rstate = "flowing"
    /\ r.rpos < Len(Source(r))
    /\ op' = [op EXCEPT ![o] =
         [SetWrittenBytes(r, r.bytesWritten) EXCEPT
            !.rpos = @ + 1,
            !.wbuf = IF r.wstate \in {"opening", "open"}
                     THEN Append(@, Source(r)[r.rpos + 1]) ELSE @]]
    /\ emitters' = Assign([em |-> emitters, hd |-> heard], r.pe,
                          "writtenBytes", r.bytesWritten).em
    /\ heard' = Assign([em |-> emitters, hd |-> heard], r.pe,
                       "writtenBytes", r.bytesWritten).hd
    /\ UNCHANGED <<fs, dirs, sync, nsync>>

\* readStream 'end': the pipe ends the write stream.
ReadEnd(o) ==
    LET r == op[o] IN
    /\ r.rstate = "flowing"
    /\ r.rpos = Len(Source(r))
    /\ op' = [op EXCEPT ![o] = [r EXCEPT !.rstate = "ended", !.wended = TRUE]]
    /\ UNCHANGED <<fs, dirs, sync, nsync, emitters, heard>>

\* readStream 'error': the error is kept and the write stream ended.
ReadError(o) ==
    LET r == op[o] IN
    /\ r.rstate = "flowing"
    /\ op' = [op EXCEPT ![o] =
         [r EXCEPT !.rstate = "errored", !.wended = TRUE,
                   !.readError = CpFileError("Cannot read from", r.src, SysError("EIO"))]]
    /\ UNCHANGED <<fs, dirs, sync, nsync, emitters, heard>>

\* The write stream writes its next queued chunk to the file.
WriteChunk(o, fault) ==
    LET r == op[o] IN
    /\ r.wstate = "open"
    /\ r.wbuf # <<>>
    /\ IF fault
       THEN /\ op' = [op EXCEPT ![o] = WriteFailed(r, "ENOSPC")]
            /\ fs' = fs
       ELSE /\ op' = [op EXCEPT ![o] =
                [r EXCEPT !.wbuf = Tail(@), !.bytesWritten = @ + 1]]
            /\ fs' = [fs EXCEPT ![r.dst] =
                        [@ EXCEPT !.kind = "file", !.times = "now",
                                  !.content = WriteAt(@, r.bytesWritten, Head(r.wbuf))]]
    /\ UNCHANGED <<dirs, sync, nsync, emitters, heard>>

\* The ended write stream closes (or fails closing): the await returns,
\* the final progress is reported, a kept read error is thrown, or the
\* source is stat'ed again.
WriteClose(o, fault) ==
    LET r == op[o]
        closed == [SetWrittenBytes(r, FinalWrittenBytes(r.size, r.writtenBytes))
                     EXCEPT !.wstate = "closed", !.shouldUpdateStats = TRUE,
                            !.closedAfter = {q \in Ops : op[q].wstate = "closed"}]
        P == Assign([em |-> emitters, hd |-> heard], r.pe, "writtenBytes",
                    FinalWrittenBytes(r.size, r.writtenBytes))
    IN
    /\ r.wstate = "open"
    /\ r.wended
    /\ r.wbuf = <<>>
    /\ op' = [op EXCEPT ![o] =
         IF fault THEN WriteFailed(r, "EIO")
         ELSE IF ThrowsReadError(r.readError) THEN Reject(closed, r.readError)
         ELSE Called([closed EXCEPT !.pc = "restat"], "lstat")]
    /\ emitters' = IF fault THEN emitters ELSE P.em
    /\ heard' = IF fault THEN heard ELSE P.hd
    /\ UNCHANGED <<fs, dirs, sync, nsync>>

\* The second lstat settles: utimes and chmod are both started.
RestatDone(o, fault) ==
    LET r == op[o]
        code == LstatCode(fs, r.src, fault)
        stats == Lstat(fs, r.src)
    IN
    /\ r.pc = "restat"
    /\ op' = [op EXCEPT ![o] =
         IF code # ""
         THEN Reject(r, FsError("Cannot stat path", r.src, code))
         ELSE Called(Called(
                [r EXCEPT !.pc = "meta", !.utimes = "pending", !.chmod = "pending",
                          !.stats = MetaStats(r.stat,
                                      [times |-> stats.times, mode |-> stats.mode])],
                "utimes"), "chmod")]
    /\ UNCHANGED <<fs, dirs, sync, nsync, emitters, heard>>

\* Another process changes the times and the mode of the source of a copy
\* that has stat'ed it once and not yet again.
TouchSource(p) ==
    /\ \E o \in Ops : op[o].src = p /\ op[o].pc \in {"openRead", "makeDir", "stream", "restat"}
    /\ Node(fs, p).kind \in {"file", "link"}
    /\ fs[p].times # "touched"
    /\ fs' = [fs EXCEPT ![p].times = "touched", ![p].mode = "mtouched"]
    /\ UNCHANGED <<dirs, op, sync, nsync, emitters, heard>>

\* A metadata update of a path: the code it fails with.
MetaCode(F, p, fault) ==
    IF fault THEN "EPERM" ELSE IF Node(F, p).kind = "none" THEN "ENOENT" ELSE ""

\* fs.utimes(destination, stats.atime, stats.mtime) settles.
UtimesDone(o, fault) ==
    LET r == op[o]
        code == MetaCode(fs, r.dst, fault)
    IN
    /\ r.utimes = "pending"
    /\ IF code # ""
       THEN /\ op' = [op EXCEPT ![o] =
                IF r.res = "pending"
                THEN Reject([r EXCEPT !.utimes = "failed"],
                            FsError("Cannot set utimes", r.dst, code))
                ELSE [r EXCEPT !.utimes = "failed"]]
            /\ fs' = fs
       ELSE /\ op' = [op EXCEPT ![o] =
                IF r.chmod = "ok" THEN Resolve([r EXCEPT !.utimes = "ok"])
                ELSE [r EXCEPT !.utimes = "ok"]]
            /\ fs' = [fs EXCEPT ![r.dst].times = r.stats.times]
    /\ UNCHANGED <<dirs, sync, nsync, emitters, heard>>

\* fs.chmod(destination, stats.mode) settles.
ChmodDone(o, fault) ==
    LET r == op[o]
        code == MetaCode(fs, r.dst, fault)
    IN
    /\ r.chmod = "pending"
    /\ IF code # ""
       THEN /\ op' = [op EXCEPT ![o] =
                IF r.res = "pending"
                THEN Reject([r EXCEPT !.chmod = "failed"],
                            FsError("Cannot chmod", r.dst, code))
                ELSE [r EXCEPT !.chmod = "failed"]]
            /\ fs' = fs
       ELSE /\ op' = [op EXCEPT ![o] =
                IF r.utimes = "ok" THEN Resolve([r EXCEPT !.chmod = "ok"])
                ELSE [r EXCEPT !.chmod = "ok"]]
            /\ fs' = [fs EXCEPT ![r.dst].mode = r.stats.mode]
    /\ UNCHANGED <<dirs, sync, nsync, emitters, heard>>

\* ---------------------------------------------------------- cpFile.sync
NoSync ==
    [res |-> "none", err |-> NoErr, src |-> "", dst |-> "",
     overwrite |-> TRUE, followSymlinks |-> TRUE, copy |-> "",
     calls |-> <<>>, pre |-> NoNode, preDirs |-> {}]

\* checkSourceIsFile(stat, source): the error it throws, NoErr when none.
checkSourceIsFileNever(stat, source) == NoErr
checkSourceIsFile(stat, source) ==
    IF stat.isDirectory
    THEN [cls |-> "CpFileError", msg |-> "EISDIR: illegal operation on a directory",
          path |-> source, code |-> "EISDIR", errno |-> -21]
    ELSE NoErr

\* The catch of the blocking copy: the one error it returns on.
SyncSwallowsNothing(overwrite, code) == FALSE
SyncSwallows(overwrite, code) == ~overwrite /\ code = "EEXIST"

SyncFaults == {"none", "lstat", "makeDir", "copyFile", "utimes"}

\* One call of cpFile.sync, start to end (it blocks the thread, so no event
\* of the model interleaves with it); fault: the primitive the environment
\* makes fail, if any. The call is made while no async copy has begun work.
CpFileSync(source, destination, options, fault) ==
    LET o == normalizeOptions(options)
        call == [NoSync EXCEPT !.src = source, !.dst = destination,
                               !.overwrite = o.overwrite,
                               !.followSymlinks = o.followSymlinks,
                               !.pre = Node(fs, destination), !.preDirs = dirs]
        lcode == LstatCode(fs, source, fault = "lstat")
        stat == Lstat(fs, source)
        follow == stat.isSymbolicLink /\ o.followSymlinks
        src2 == IF follow THEN Node(fs, source).target ELSE source
        c1 == IF follow THEN <<"lstat", "readlink", "makeDir">> ELSE <<"lstat", "makeDir">>
        D2 == dirs \cup {destination}
        cc == CopyFileCode(fs, D2, src2, destination, CopyExcl(o.overwrite),
                           fault = "copyFile")
        F2 == CopiedFile(fs, src2, destination)
        ucode == MetaCode(F2, destination, fault = "utimes")
        threw(c, e, calls) == [c EXCEPT !.res = "threw", !.err = e, !.calls = calls]
        returned(c, calls) == [c EXCEPT !.res = "returned", !.calls = calls]
    IN
    /\ \A q \in Ops : op[q].calls = <<>> /\ op[q].pc \in {"idle", "done"}
    /\ nsync' = nsync + 1
    /\ IF MissingArgs(source, destination)
       THEN /\ sync' = threw(call, CpFileError("source and destination required", "", NoErr), <<>>)
            /\ UNCHANGED <<fs, dirs>>
       ELSE IF lcode # ""
       THEN /\ sync' = threw(call,
                             FsError("Cannot stat path", source, lcode), <<"lstat">>)
            /\ UNCHANGED <<fs, dirs>>
       ELSE IF checkSourceIsFile(stat, source) # NoErr
       THEN /\ sync' = threw(call,
                             checkSourceIsFile(stat, source), <<"lstat">>)
            /\ UNCHANGED <<fs, dirs>>
       ELSE IF fault = "makeDir"
       THEN /\ sync' = threw(call,
                             FsError("Cannot create directory", destination, "EACCES"), c1)
            /\ UNCHANGED <<fs, dirs>>
       ELSE IF cc # ""
       THEN /\ sync' = IF SyncSwallows(o.overwrite, cc)
                       THEN returned([call EXCEPT !.copy = cc],
                                     Append(c1, "copyFile"))
                       ELSE threw([call EXCEPT !.copy = cc],
                                  FsError("Cannot copy", destination, cc),
                                  Append(c1, "copyFile"))
            /\ dirs' = D2
            /\ fs' = fs
       ELSE IF ucode # ""
       THEN /\ sync' = threw([call EXCEPT !.copy = "ok"],
                             FsError("Cannot set utimes", destination, ucode),
                             c1 \o <<"copyFile", "utimes">>)
            /\ dirs' = D2
            /\ fs' = F2
       ELSE /\ sync' = returned([call EXCEPT !.copy = "ok"],
                                c1 \o <<"copyFile", "utimes">>)
            /\ dirs' = D2
            /\ fs' = [F2 EXCEPT ![destination].times = stat.times]
    /\ UNCHANGED <<op, emitters, heard>>

\* ------------------------------------------------------------ the system
\* The files before any copy: the source file with 0..MaxLen chunks, the
\* destination present or not, its parent directory present or not.
World(n, dstExists) ==
    [p \in Paths |->
        CASE p = "f" -> FileNode(SrcContent(n), "tf", "mf")
          [] p = "l" -> LinkNode("f", "tl", "ml")
          [] p = "dl" -> LinkNode("nx", "tdl", "mdl")
          [] p = "dir" -> DirNode
          [] p = "g" -> FileNode(OtherContent, "tg", "mg")
          [] p = "out" -> IF dstExists THEN FileNode(OldContent, "told", "mold") ELSE NoNode
          [] OTHER -> NoNode]

Init ==
    /\ \E n \in 0..MaxLen, dstExists \in BOOLEAN : fs = World(n, dstExists)
    /\ dirs \in SUBSET DstPaths
    /\ \A d \in DstPaths : fs[d].kind # "none" => d \in dirs
    /\ op = [o \in Ops |-> IdleOp]
    /\ sync = NoSync
    /\ nsync = 0
    /\ emitters = [e \in Ops |-> NoEmitter]
    /\ heard = [o \in Ops |-> <<>>]

Next ==
    \/ \E o \in Solo, s \in SrcPaths \cup {""}, d \in DstPaths \cup {""}, opt \in RawOptions,
          listen \in BOOLEAN : CpFile(o, s, d, opt, listen)
    \/ \E o \in Ops : On(o)
    \/ \E o \in Ops, fault \in BOOLEAN, copyFault \in BOOLEAN : LstatDone(o, fault, copyFault)
    \/ \E o \in Ops, fault \in BOOLEAN : ReadStreamReady(o, fault)
    \/ \E o \in Ops : ReadErrorUnhandled(o)
    \/ \E o \in Ops, fault \in BOOLEAN : MakeDirDone(o, fault)
    \/ \E o \in Ops, fault \in BOOLEAN : WriteOpen(o, fault)
    \/ \E o \in Ops : ReadData(o)
    \/ \E o \in Ops : ReadEnd(o)
    \/ \E o \in Ops : ReadError(o)
    \/ \E o \in Ops, fault \in BOOLEAN : WriteChunk(o, fault)
    \/ \E o \in Ops, fault \in BOOLEAN : WriteClose(o, fault)
    \/ \E o \in Ops, fault \in BOOLEAN : RestatDone(o, fault)
    \/ \E p \in SrcPaths : TouchSource(p)
    \/ \E o \in Ops, fault \in BOOLEAN : UtimesDone(o, fault)
    \/ \E o \in Ops, fault \in BOOLEAN : ChmodDone(o, fault)
    \/ \E s \in SrcPaths \cup {""}, d \in DstPaths \cup {""}, opt \in RawOptions,
          fault \in SyncFaults : nsync < MaxSyncCalls /\ CpFileSync(s, d, opt, fault)

Spec == Init /\ [][Next]_vars

\* Two calls of cpFile with default options (overwrite: true), each with a
\* listener registered at once, running side by side or one after the
\* other, no primitive failing: the first copies "f" to "out", the second,
\* called at any moment after the first, either source to either
\* destination. Or up to MaxPairSyncCalls calls of cpFile.sync one after
\* the other.
DefaultOptions == [overwrite |-> "unset", followSymlinks |-> "unset"]

PairInit ==
    /\ \E n \in 0..MaxLen : fs = World(n, FALSE)
    /\ dirs = {d \in PairDstPaths : fs[d].kind # "none"}
    /\ op = [o \in Ops |-> IdleOp]
    /\ sync = NoSync
    /\ nsync = 0
    /\ emitters = [e \in Ops |-> NoEmitter]
    /\ heard = [o \in Ops |-> <<>>]

PairNext ==
    \/ CpFile(1, "f", "out", DefaultOptions, TRUE)
    \/ \E s \in PairSrcPaths, d \in PairDstPaths :
          op[1].pc # "idle" /\ CpFile(2, s, d, DefaultOptions, TRUE)
    \/ \E o \in Ops : LstatDone(o, FALSE, FALSE)
    \/ \E o \in Ops : ReadStreamReady(o, FALSE)
    \/ \E o \in Ops : MakeDirDone(o, FALSE)
    \/ \E o \in Ops : WriteOpen(o, FALSE)
    \/ \E o \in Ops : ReadData(o)
    \/ \E o \in Ops : ReadEnd(o)
    \/ \E o \in Ops : WriteChunk(o, FALSE)
    \/ \E o \in Ops : WriteClose(o, FALSE)
    \/ \E o \in Ops : RestatDone(o, FALSE)
    \/ \E o \in Ops : UtimesDone(o, FALSE)
    \/ \E o \in Ops : ChmodDone(o, FALSE)
    \/ \E s \in SrcPaths, d \in PairDstPaths, opt \in RawOptions :
          nsync < MaxPairSyncCalls /\ CpFileSync(s, d, opt, "none")

PairSpec == PairInit /\ [][PairNext]_vars

\* ------------------------------------------------------------ properties
InSeq(x, s) == \E i \in 1..Len(s) : s[i] = x

\* The bytes a copy of a path is to produce: those of the file it leads to.
ContentOf(F, p) == Node(F, Deref(F, p)).content

IsWriteFailure(e, destination) ==
    e.cls = "CpFileError" /\ e.msg = "Cannot write to" /\ e.path = destination

IsConfigError(e) ==
    e.cls = "CpFileError" /\ e.msg = "source and destination required"

\* The data transfer of an operation completed: the link-level copy was
\* made, or the write stream closed with no read error kept.
TransferSucceeded(r) ==
    \/ r.linkCopy = "ok"
    \/ r.wstate = "closed" /\ r.readError = NoErr

\* The metadata step of an operation has started (its re-stat was issued).
MetaStarted(r) == r.pc \in {"restat", "meta"} \/ r.utimes # "none"

\* C1: whenever an async copy of a source leading to a regular file
\* resolves, and whenever cpFile.sync returns after its byte copy, the
\* destination holds the bytes of the source.
C1_ContentCopied ==
    [][/\ \A o \in Ops :
            (/\ op[o].res = "pending"
             /\ op'[o].res = "resolved"
             /\ Node(fs', Deref(fs', op[o].src)).kind = "file")
            => /\ Node(fs', op[o].dst).kind = "file"
               /\ Node(fs', op[o].dst).content = ContentOf(fs', op[o].src)
       /\ (nsync' = nsync + 1 /\ sync'.res = "returned" /\ sync'.copy = "ok")
            => Node(fs', sync'.dst).content = ContentOf(fs', sync'.src)]_vars

\* C2: the metadata step of an async copy is started only once its data
\* transfer (link-level copy, or streamed write) completed successfully.
C2_MetaOnlyAfterTransfer ==
    \A o \in Ops : MetaStarted(op[o]) => TransferSucceeded(op[o])

\* C3: a streaming copy with overwrite: false whose destination exists
\* rejects, once its write stream has tried to open, with a wrapped write
\* failure naming the destination and carrying EEXIST, and the destination
\* is as it was.
C3_ExclusiveStreamRejects ==
    \A o \in Ops :
        (/\ ~op[o].overwrite
         /\ op[o].pre.kind # "none"
         /\ op[o].wstate \notin {"none", "opening"})
        => /\ op[o].res = "rejected"
           /\ IsWriteFailure(op[o].err, op[o].dst)
           /\ op[o].err.code = "EEXIST"
           /\ fs[op[o].dst] = op[o].pre

C3_Witness ==
    \E o \in Ops :
        /\ ~op[o].overwrite
        /\ op[o].pre.kind = "file"
        /\ op[o].wstate = "errored"
        /\ op[o].res = "rejected"
        /\ op[o].err.code = "EEXIST"

\* C4: a call of cpFile.sync with overwrite: false whose byte copy fails
\* with EEXIST returns normally, without the timestamp update, and the
\* destination is as it was.
C4_SyncExclusiveSilent ==
    (sync.res # "none" /\ ~sync.overwrite /\ sync.copy = "EEXIST")
    => /\ sync.res = "returned"
       /\ ~InSeq("utimes", sync.calls)
       /\ fs[sync.dst] = sync.pre

C4_Witness ==
    /\ sync.res = "returned"
    /\ ~sync.overwrite
    /\ sync.copy = "EEXIST"
    /\ sync.pre.kind = "file"
    /\ fs[sync.dst].content = OldContent

\* C5: in the streaming branch a failed write stream makes the operation
\* reject with the write failure, also when a read error was kept; the kept
\* read error is the outcome only when the write stream closed.
C5_WriteFailureFirst ==
    \A o \in Ops :
        /\ op[o].wstate = "errored"
           => op[o].res = "rejected" /\ IsWriteFailure(op[o].err, op[o].dst)
        /\ (op[o].res = "rejected" /\ op[o].readError # NoErr
            /\ op[o].err = op[o].readError)
           => op[o].wstate = "closed"

C5_Witness ==
    \E o \in Ops :
        /\ op[o].wstate = "errored"
        /\ op[o].readError # NoErr
        /\ op[o].res = "rejected"
        /\ IsWriteFailure(op[o].err, op[o].dst)

\* C6: when an async copy resolves, the last value assigned to writtenBytes
\* is size, the size the first lstat of the source gave.
C6_FinalWrittenIsSize ==
    \A o \in Ops :
        op[o].res = "resolved"
        => /\ op[o].wbLog # <<>>
           /\ op[o].wbLog[Len(op[o].wbLog)] = op[o].size
           /\ op[o].writtenBytes = op[o].size
           /\ op[o].size = Lstat(fs, op[o].src).size

C6_Witness ==
    \E o \in Ops :
        /\ op[o].res = "resolved"
        /\ op[o].size = MaxLen
        /\ Len(op[o].wbLog) = MaxLen + 1
        /\ op[o].bytesWritten = MaxLen

\* C7: the values assigned to writtenBytes within one async copy never
\* decrease.
C7_WrittenMonotone ==
    \A o \in Ops :
        \A i \in 1..Len(op[o].wbLog), j \in 1..Len(op[o].wbLog) :
            i <= j => op[o].wbLog[i] <= op[o].wbLog[j]

\* C8: a call with an empty source or destination is answered with the
\* configuration error (a rejected result of cpFile, a throw of
\* cpFile.sync) and performs no filesystem operation.
C8_MissingArgsRejected ==
    /\ \A o \in Ops :
          (op[o].pc # "idle" /\ (op[o].src = "" \/ op[o].dst = ""))
          => /\ op[o].res = "rejected"
             /\ IsConfigError(op[o].err)
             /\ op[o].calls = <<>>
    /\ (sync.res # "none" /\ (sync.src = "" \/ sync.dst = ""))
          => /\ sync.res = "threw"
             /\ IsConfigError(sync.err)
             /\ sync.calls = <<>>
             /\ dirs = sync.preDirs

C8_Witness ==
    /\ \E o \in Ops : op[o].res = "rejected" /\ op[o].src # "" /\ op[o].dst = ""
    /\ sync.res = "threw" /\ sync.src = "" /\ sync.dst # ""

\* C9: cpFile.sync of a directory (that lstat could read) throws EISDIR with
\* errno -21 naming the source, having created neither the destination's
\* parent directory nor the destination.
C9_SyncRejectsDirectory ==
    (/\ sync.res # "none"
     /\ sync.src # "" /\ sync.dst # ""
     /\ Node(fs, sync.src).kind = "dir"
     /\ sync.err.msg # "Cannot stat path")
    => /\ sync.res = "threw"
       /\ sync.err.code = "EISDIR"
       /\ sync.err.errno = -21
       /\ sync.err.path = sync.src
       /\ sync.calls = <<"lstat">>
       /\ dirs = sync.preDirs
       /\ fs[sync.dst] = sync.pre

C9_Witness ==
    /\ sync.res = "threw"
    /\ sync.src = "dir"
    /\ sync.err.code = "EISDIR"
    /\ sync.pre.kind = "none"
    /\ sync.dst \notin dirs

\* C10: every result cpFile returns carries the subscription method.
C10_EveryResultHasOn ==
    \A o \in Ops : op[o].pc # "idle" => op[o].hasOn

\* A step of operation o other than its call: an event the environment
\* delivers to it.
OpStep(o) ==
    \/ \E fault \in BOOLEAN, copyFault \in BOOLEAN : LstatDone(o, fault, copyFault)
    \/ \E fault \in BOOLEAN : ReadStreamReady(o, fault)
    \/ ReadErrorUnhandled(o)
    \/ \E fault \in BOOLEAN : MakeDirDone(o, fault)
    \/ \E fault \in BOOLEAN : WriteOpen(o, fault)
    \/ ReadData(o)
    \/ ReadEnd(o)
    \/ ReadError(o)
    \/ \E fault \in BOOLEAN : WriteChunk(o, fault)
    \/ \E fault \in BOOLEAN : WriteClose(o, fault)
    \/ \E fault \in BOOLEAN : RestatDone(o, fault)
    \/ \E fault \in BOOLEAN : UtimesDone(o, fault)
    \/ \E fault \in BOOLEAN : ChmodDone(o, fault)

\* C11: an async copy that is pending always has an event still to come
\* (every event moves it forward, so it then settles): no order of stream
\* events leaves it pending with nothing left to happen.
C11_PendingCanStep ==
    \A o \in Ops : op[o].res = "pending" => ENABLED OpStep(o)

\* C16: a link-level copy that fails, whatever the code, makes the operation
\* reject with a write failure; no progress is credited and no metadata
\* update is marked.
C16_LinkCopyFailureRejects ==
    \A o \in Ops :
        op[o].linkCopy \notin {"", "ok"}
        => /\ op[o].res = "rejected"
           /\ IsWriteFailure(op[o].err, op[o].dst)
           /\ op[o].wbLog = <<>>
           /\ ~op[o].shouldUpdateStats

\* C17: while and after an async copy streams, the reported writtenBytes is
\* at most the number of bytes its write stream has written to the
\* destination.
C17_NoOverReport ==
    \A o \in Ops :
        (op[o].wstate # "none" /\ Node(fs, op[o].src).kind = "file")
        => op[o].writtenBytes <= op[o].bytesWritten

C19_LinkCopyExistsRejects ==
    \A o \in Ops :
        (op[o].linkCopy = "EEXIST" /\ ~op[o].overwrite)
        => /\ op[o].res = "rejected"
           /\ IsWriteFailure(op[o].err, op[o].dst)
           /\ op[o].err.code = "EEXIST"
           /\ op[o].wbLog = <<>>
           /\ op[o].writtenBytes # op[o].size
           /\ ~op[o].shouldUpdateStats
           /\ ~MetaStarted(op[o])
           /\ fs[op[o].dst] = op[o].pre

C19_Witness ==
    \E o \in Ops :
        /\ op[o].linkCopy = "EEXIST"
        /\ ~op[o].overwrite
        /\ op[o].src = "l"
        /\ op[o].res = "rejected"

\* C15: when the second lstat settles, fs.utimes and fs.chmod are both
\* started, with the times and the mode the source has at that moment; each
\* applies the value of that stat to the destination; and when either
\* fails the operation is rejected, its transfer having completed.
C15_MetaFromFreshStat ==
    [][\A o \in Ops :
         /\ (op[o].pc = "restat" /\ op'[o].pc = "meta")
            => /\ op'[o].utimes = "pending"
               /\ op'[o].chmod = "pending"
               /\ op'[o].stats = [times |-> fs[op[o].src].times,
                                  mode |-> fs[op[o].src].mode]
         /\ (op[o].utimes = "pending" /\ op'[o].utimes = "ok")
            => fs'[op[o].dst].times = op[o].stats.times
         /\ (op[o].chmod = "pending" /\ op'[o].chmod = "ok")
            => fs'[op[o].dst].mode = op[o].stats.mode
         /\ (op'[o].utimes = "failed" \/ op'[o].chmod = "failed")
            => op'[o].res = "rejected" /\ op'[o].shouldUpdateStats
      ]_vars

C15_Witness ==
    \E o \in Ops :
        /\ op[o].res = "resolved"
        /\ op[o].stat.times = "tf"
        /\ op[o].stats.times = "touched"
        /\ fs[op[o].dst].times = "touched"
        /\ fs[op[o].dst].mode = "mtouched"

\* C20: a listener registered on the promise in the same synchronous run as
\* the call of cpFile has received every notification the operation's
\* emitter has sent: none was sent before cpFile returned.
C20_SyncListenerHearsAll ==
    \A o \in Ops :
        op[o].listen = "sync" => heard[o] = emitters[op[o].pe].sent

C20_Witness ==
    \E o \in Ops :
        /\ op[o].listen = "sync"
        /\ op[o].res = "resolved"
        /\ Len(heard[o]) >= 4
        /\ heard[o][1].size = op[o].size
        /\ heard[o][Len(heard[o])].writtenBytes = op[o].size

\* C12: each copy has an emitter of its own, holding its own size and
\* writtenBytes, and every notification its listener receives carries its
\* own resolved paths, its own size and the writtenBytes it assigned.
C12_OwnProgress ==
    /\ \A o, q \in Ops :
          (o # q /\ op[o].pc # "idle" /\ op[q].pc # "idle") => op[o].pe # op[q].pe
    /\ \A o \in Ops :
          /\ op[o].pc # "idle"
             => /\ emitters[op[o].pe].size = op[o].size
                /\ emitters[op[o].pe].writtenBytes = op[o].writtenBytes
          /\ Len(heard[o]) <= 1 + Len(op[o].wbLog)
          /\ \A i \in 1..Len(heard[o]) :
                /\ heard[o][i].sourcePath = resolve(op[o].src)
                /\ heard[o][i].destinationPath = resolve(op[o].dst)
                /\ heard[o][i].size = op[o].size
                /\ heard[o][i].writtenBytes = IF i = 1 THEN 0 ELSE op[o].wbLog[i - 1]

C12_Witness ==
    /\ op[1].pc = "stream" /\ op[2].pc = "stream"
    /\ op[1].src # op[2].src /\ op[1].dst # op[2].dst
    /\ op[1].size # op[2].size
    /\ Len(heard[1]) >= 2 /\ Len(heard[2]) >= 2
    /\ heard[1][Len(heard[1])].writtenBytes # heard[2][Len(heard[2])].writtenBytes

\* Two copies to one destination that have both succeeded.
BothCopied(o, q) ==
    /\ o # q
    /\ op[o].res = "resolved" /\ op[q].res = "resolved"
    /\ op[o].overwrite /\ op[q].overwrite
    /\ op[o].dst = op[q].dst

\* C13 as stated: of two copies to one destination that both succeeded,
\* the one whose write stream closed last has its whole source as the final
\* content of the destination.
C13_LastCloseWins ==
    \A o, q \in Ops :
        (BothCopied(o, q) /\ q \in op[o].closedAfter)
        => fs[op[o].dst].content = Source(op[o])

\* C13, amended: ... the one whose write stream opened after the write
\* stream of the other had closed has its whole source as the final
\* content of the destination.
C13_OpenedAfterCloseWins ==
    \A o, q \in Ops :
        (BothCopied(o, q) /\ q \in op[o].openedAfter)
        => fs[op[o].dst].content = Source(op[o])

C13_Witness ==
    \E o, q \in Ops :
        /\ BothCopied(o, q)
        /\ q \in op[o].openedAfter
        /\ op[o].after = {}
        /\ op[o].src # op[q].src
        /\ Len(Source(op[o])) < Len(Source(op[q]))

\* C14: a second copy of the same source to the same destination with
\* overwrite: true, made after the first one succeeded, does not fail and
\* leaves the content the first one left, the content of the source: for
\* cpFile called after the first promise resolved, and for cpFile.sync
\* called after the first call returned.
C14_SecondCopySame ==
    [][/\ \A o, q \in Ops :
            (/\ q \in op'[o].after
             /\ op'[o].src = op'[q].src /\ op'[o].dst = op'[q].dst
             /\ op'[o].overwrite /\ op'[q].overwrite)
            => /\ op'[o].res # "rejected"
               /\ op'[o].res = "resolved"
                  => /\ fs'[op'[o].dst].content = op'[o].pre.content
                     /\ fs'[op'[o].dst].content = ContentOf(fs', op'[o].src)
       /\ (/\ nsync' = nsync + 1
           /\ sync.res = "returned" /\ sync.copy = "ok" /\ sync.overwrite
           /\ sync'.src = sync.src /\ sync'.dst = sync.dst /\ sync'.overwrite)
          => /\ sync'.res = "returned"
             /\ sync'.copy = "ok"
             /\ fs'[sync.dst].content = fs[sync.dst].content
             /\ fs'[sync.dst].content = ContentOf(fs', sync.src)
      ]_vars

C14_Witness ==
    \E o, q \in Ops :
        /\ q \in op[o].after
        /\ op[o].src = op[q].src /\ op[o].dst = op[q].dst
        /\ op[o].res = "resolved"
        /\ Len(op[o].pre.content) = MaxLen
        /\ fs[op[o].dst].content = op[o].pre.content

====
